---- MODULE Spec2Model ----
(***************************************************************************)
(* A model of grpcurl-mcp (src/main.go): an MCP server whose three tools   *)
(* invoke, list and describe each dial the configured gRPC target, use its *)
(* reflection service, and return a text payload.                          *)
(*                                                                         *)
(* Text is modelled as a sequence of tokens (a token is a fixed piece of   *)
(* text), so that concatenation, joining and splitting are sequence        *)
(* operations.  Every tool call is a run of one handler closure; its local *)
(* variables are the fields of call[c].  What the target and the network   *)
(* did for a call is logged in net[c].                                     *)
(***************************************************************************)
EXTENDS Naturals, Sequences, FiniteSets

VARIABLES
    process,        \* main(): "starting", "serving" or "exited"
    host,           \* GrpcReflectionServer.host
    call,           \* per tool call: the handler's locals and position
    outputBuffer,   \* the bytes.Buffer of each invoke call
    net             \* per tool call: the log of what the network did for it

vars == <<process, host, call, outputBuffer, net>>

\* ---------------------------------------------------------------- bounds
NumCalls == 2
MaxResponses == 3
MaxServices == 3
MaxEntities == 3

CallIds == 1..NumCalls

\* ------------------------------------------------------------------ text
Nil == "nil"
NoResult == [IsError |-> FALSE, Content |-> <<>>]

RECURSIVE Concat(_)
\* the concatenation of a sequence of texts
Concat(ss) == IF ss = <<>> THEN <<>> ELSE Head(ss) \o Concat(Tail(ss))

RECURSIVE Join(_, _)
\* strings.Join(elems, sep)
Join(elems, sep) ==
    IF elems = <<>> THEN <<>>
    ELSE IF Len(elems) = 1 THEN elems[1]
    ELSE elems[1] \o sep \o Join(Tail(elems), sep)

RECURSIVE SplitFrom(_, _, _)
SplitFrom(s, sep, cur) ==
    IF s = <<>> THEN <<cur>>
    ELSE IF Head(s) = sep THEN <<cur>> \o SplitFrom(Tail(s), sep, <<>>)
    ELSE SplitFrom(Tail(s), sep, Append(cur, Head(s)))

\* strings.Split(s, sep): never empty, Split("", ",") is [""]
Split(s, sep) == SplitFrom(s, sep, <<>>)

\* ------------------------------------------------------- result envelopes
\* toolSuccess(contents) with the one content every handler passes
toolSuccess(contents) == [IsError |-> FALSE, Content |-> <<contents>>]

toolError(message) == [IsError |-> TRUE, Content |-> <<message>>]

\* a return statement that hands the failure to the host as a handler error
HandlerReturnErr(r) == [result |-> [IsError |-> TRUE, Content |-> <<>>], err |-> "error"]

\* what a handler's return statement hands to the host: (result, nil)
HandlerReturn(r) == [result |-> r, err |-> Nil]

\* the deferred Close left out
DeferredCloseNone(conn) == conn

\* defer cc.Close(), registered once the dial succeeded
DeferredClose(conn) == IF conn = "open" THEN "closed" ELSE conn

\* defer refClient.Reset()
DeferredReset(rc) == IF rc = "active" THEN "reset" ELSE rc

\* ------------------------------------------------------------------ state
IdleCall ==
    [pc |-> "idle", tool |-> "none", ctx |-> "live",
     method |-> "", request |-> "", headersJSON |-> "",
     entities |-> [kind |-> "missing", val |-> <<>>],
     cc |-> Nil, refClient |-> Nil,
     used |-> FALSE, sent |-> 0,
     NumResponses |-> 0, Status |-> Nil,
     tmp |-> <<>>, idx |-> 0, results |-> <<>>,
     ret |-> [result |-> NoResult, err |-> Nil]]

Init ==
    /\ process = "starting"
    /\ host = ""
    /\ call = [c \in CallIds |-> IdleCall]
    /\ outputBuffer = [c \in CallIds |-> <<>>]
    /\ net = [c \in CallIds |-> <<>>]

Addresses == {"", "localhost:8005"}

\* main(): ADDRESS missing is fatal, otherwise the server is built and serves
Main(address) ==
    /\ process = "starting"
    /\ IF address = ""
       THEN process' = "exited" /\ host' = host
       ELSE process' = "serving" /\ host' = address
    /\ UNCHANGED <<call, outputBuffer, net>>

\* ------------------------------------------------------------ the network
Event(kind, val) == [ev |-> kind, val |-> val]

Events(log, kind) == SelectSeq(log, LAMBDA e : e.ev = kind)

Count(log, kind) == Len(Events(log, kind))

\* one buffer for all calls, declared outside the closure
BufferShared(c) == 1

\* the buffer an invoke call writes to: var outputBuffer, local to the closure
BufferOf(c) == c

\* the context each network step is given
DialCtx(c) == call[c].ctx

\* the reflection client built on context.Background()
ReflectCtxBackground(c) == "live"

ReflectCtx(c) == call[c].ctx

InvokeCtx(c) == call[c].ctx

\* a return statement of a handler, with the deferred calls that run at it
Finish(c, loc, events, r) ==
    /\ call' = [call EXCEPT ![c] =
                  [loc EXCEPT !.pc = "returned",
                              !.ret = HandlerReturn(r),
                              !.cc = DeferredClose(loc.cc),
                              !.refClient = DeferredReset(loc.refClient)]]
    /\ net' = [net EXCEPT ![c] =
                 @ \o events \o
                 (IF loc.cc = "open" /\ DeferredClose(loc.cc) = "closed"
                  THEN <<Event("close", <<>>)>> ELSE <<>>)]

Goto(c, loc, events) ==
    /\ call' = [call EXCEPT ![c] = loc]
    /\ net' = [net EXCEPT ![c] = @ \o events]

\* ---------------------------------------------------------------- the host
CallInvoke(c, methods, requests, headerJSONs, peers) ==
    /\ process = "serving"
    /\ \A d \in peers : call[d].pc = "idle"
    /\ call[c].pc = "idle"
    /\ \E method \in methods, request \in requests, headersJSON \in headerJSONs :
          call' = [call EXCEPT ![c] =
                     [IdleCall EXCEPT !.pc = "headers", !.tool = "invoke",
                                      !.method = method, !.request = request,
                                      !.headersJSON = headersJSON]]
    /\ UNCHANGED <<process, host, outputBuffer, net>>

CallList(c, peers) ==
    /\ process = "serving"
    /\ \A d \in peers : call[d].pc = "idle"
    /\ call[c].pc = "idle"
    /\ call' = [call EXCEPT ![c] =
                  [IdleCall EXCEPT !.pc = "dial", !.tool = "list"]]
    /\ UNCHANGED <<process, host, outputBuffer, net>>

CallDescribe(c, entityArgs, peers) ==
    /\ process = "serving"
    /\ \A d \in peers : call[d].pc = "idle"
    /\ call[c].pc = "idle"
    /\ \E entities \in entityArgs :
          call' = [call EXCEPT ![c] =
                     [IdleCall EXCEPT !.pc = "dial", !.tool = "describe",
                                      !.entities = entities]]
    /\ UNCHANGED <<process, host, outputBuffer, net>>

\* the host cancels the context of an in-flight call
Cancel(c) ==
    /\ call[c].pc \notin {"idle", "returned"}
    /\ call[c].ctx = "live"
    /\ call' = [call EXCEPT ![c].ctx = "cancelled"]
    /\ UNCHANGED <<process, host, outputBuffer, net>>

\* the host takes the result; the call's locals are garbage
Deliver(c) ==
    /\ call[c].pc = "returned"
    /\ call' = [call EXCEPT ![c] = IdleCall]
    /\ net' = [net EXCEPT ![c] = <<>>]
    /\ outputBuffer' = [outputBuffer EXCEPT ![BufferOf(c)] = <<>>]
    /\ UNCHANGED <<process, host>>

\* ------------------------------------------------------------ the dial
\* grpcurl.BlockingDial(ctx, "tcp", g.host, nil, WithBlock, WithTimeout(10s)):
\* a connection, or an error (refused, timed out, context cancelled)
BlockingDial(c, ok, loc, next) ==
    /\ ok => DialCtx(c) = "live"
    /\ IF ok
       THEN Goto(c, [loc EXCEPT !.pc = next, !.cc = "open"],
                 <<Event("dial", <<"ok", host>>)>>)
       ELSE Finish(c, loc, <<Event("dial", <<"failed", host>>)>>,
                   toolError(<<"Failed to create gRPC connection: ", "dial error">>))

\* ----------------------------------------------------------------- invoke
HeaderJSONs == {"", "{\"Authorization\":\"Bearer X\"}", "{bad"}

\* the error of json.Unmarshal ignored
ParsedHeadersLenient(headersJSON) == [err |-> Nil, headers |-> <<>>]

\* json.Unmarshal([]byte(headersJSON), &meta) and the Sprintf("%s: %s") loop
ParsedHeaders(headersJSON) ==
    IF headersJSON = "{\"Authorization\":\"Bearer X\"}"
    THEN [err |-> Nil, headers |-> <<"Authorization: Bearer X">>]
    ELSE [err |-> "invalid character", headers |-> <<>>]

InvokeParseHeaders(c) ==
    LET loc == call[c] IN
    /\ loc.pc = "headers"
    /\ IF loc.headersJSON # "" /\ ParsedHeaders(loc.headersJSON).err # Nil
       THEN Finish(c, loc, <<>>,
                   toolError(<<"Failed to parse headers JSON: ",
                               ParsedHeaders(loc.headersJSON).err>>))
       ELSE Goto(c, [loc EXCEPT !.pc = "dial"], <<>>)
    /\ UNCHANGED <<process, host, outputBuffer>>

\* lines 91-125: dial, defer Close, reflection client, buffer, handler, supplier
InvokeDial(c, ok) ==
    LET loc == call[c] IN
    /\ loc.pc = "dial" /\ loc.tool = "invoke"
    /\ BlockingDial(c, ok,
                    [loc EXCEPT !.refClient = IF ok THEN "active" ELSE @,
                                !.used = FALSE, !.NumResponses = 0,
                                !.Status = Nil],
                    "resolve")
    /\ outputBuffer' = IF ok THEN [outputBuffer EXCEPT ![BufferOf(c)] = <<>>]
                       ELSE outputBuffer
    /\ UNCHANGED <<process, host>>

\* the target's schema, as its reflection service reports it
Methods ==
    {"greet.Greeter/SayHello", "greet.Greeter/Watch", "greet.Greeter/Upload",
     "greet.Greeter/Nope", "SayHello"}

\* the kind of a method: "malformed" has no separator, "unknown" does not resolve
MethodKind(method) ==
    CASE method = "greet.Greeter/SayHello" -> "unary"
      [] method = "greet.Greeter/Watch" -> "serverStream"
      [] method = "greet.Greeter/Upload" -> "clientStream"
      [] method = "SayHello" -> "malformed"
      [] OTHER -> "unknown"

Requests == {"{\"name\":\"Ada\"}", "{\"name\":", ""}

\* jsonpb.Unmarshal(bytes.NewReader(data), msg): nil, io.EOF on empty input
\* (the decoder finds no value), or a syntax error
JsonpbUnmarshal(data) ==
    CASE data = "" -> "EOF"
      [] data = "{\"name\":\"Ada\"}" -> Nil
      [] OTHER -> "syntax error"

\* Supply without the assignment s.used = true
SupplyReusable(s) ==
    IF s.used
    THEN [used |-> s.used, err |-> "EOF", decoded |-> FALSE]
    ELSE [used |-> s.used, err |-> JsonpbUnmarshal(s.data), decoded |-> TRUE]

\* singleMessageSupplier.Supply on a supplier s = [data, used]
Supply(s) ==
    IF s.used
    THEN [used |-> s.used, err |-> "EOF", decoded |-> FALSE]
    ELSE [used |-> TRUE, err |-> JsonpbUnmarshal(s.data), decoded |-> TRUE]

ResponseMessages == {"m1", "m2"}

\* the JSON formatter of grpcurl.RequestParserAndFormatter(FormatJSON, ...)
Formatter(m) ==
    IF m = "m1" THEN "{\"message\":\"Hello, Ada\"}" ELSE "{\"message\":\"Bye\"}"

\* DefaultEventHandler.OnReceiveResponse at verbosity 0: Fprintln(Out, text)
OnReceiveResponse(buf, m) == buf \o <<Formatter(m), "\n">>

\* handler.Status.Err(): nil for no status and for OK
StatusErr(st) == IF st \in {Nil, "OK"} THEN <<>> ELSE <<"rpc error: code = ", st>>

\* InvokeRPC resolves the method: malformed names fail at once, the service is
\* looked up through the reflection client, the method in the service
InvokeResolve(c, reply) ==
    LET loc == call[c]
        kind == MethodKind(loc.method) IN
    /\ loc.pc = "resolve"
    /\ IF kind = "malformed"
       THEN /\ reply = "found"
            /\ Finish(c, loc, <<>>,
                      toolError(<<"Failed to invoke RPC: ", "method name must be package.Service/Method">>))
       ELSE /\ ReflectCtx(c) = "live"
            /\ IF reply = "found" /\ kind # "unknown"
               THEN Goto(c, [loc EXCEPT !.pc = IF kind = "clientStream"
                                               THEN "openStream" ELSE "supply"],
                         <<Event("reflect", <<reply>>)>>)
               ELSE Finish(c, loc, <<Event("reflect", <<reply>>)>>,
                           toolError(<<"Failed to invoke RPC: ",
                                       IF reply = "found" THEN "service does not include the method"
                                       ELSE "failed to query for service descriptor">>))
    /\ UNCHANGED <<process, host, outputBuffer>>

\* InvokeRPC asks the request supplier for the request data
InvokeRequestData(c) ==
    LET loc == call[c]
        kind == MethodKind(loc.method)
        s == Supply([data |-> loc.request, used |-> loc.used])
        after == [loc EXCEPT !.used = s.used]
        ev == <<Event("supply", <<s.err, IF s.decoded THEN "decoded" ELSE "skipped">>)>> IN
    /\ loc.pc = "supply"
    /\ CASE s.err = "EOF" ->
              Goto(c, [after EXCEPT !.pc = IF kind = "clientStream" THEN "recv" ELSE "send"], ev)
         [] s.err = Nil ->
              IF kind # "clientStream" /\ loc.sent >= 1
              THEN Finish(c, after, ev,
                          toolError(<<"Failed to invoke RPC: ", "request data contained more than 1 message">>))
              ELSE Goto(c, [after EXCEPT !.sent = @ + 1], ev)
         [] OTHER ->
              Finish(c, after, ev,
                     toolError(<<"Failed to invoke RPC: ", "error getting request data: ", s.err>>))
    /\ UNCHANGED <<process, host, outputBuffer>>

\* the RPC is started on the connection: the unary or server-streaming call
\* once the request is read, the client stream before it is
InvokeStartRPC(c) ==
    LET loc == call[c] IN
    /\ loc.pc \in {"send", "openStream"}
    /\ Goto(c, [loc EXCEPT !.pc = IF loc.pc = "send" THEN "recv" ELSE "supply"],
            <<Event("rpc", <<loc.method>>)>>)
    /\ UNCHANGED <<process, host, outputBuffer>>

\* a response message arrives: the handler renders it into the buffer.  A unary
\* or client-streaming call has one response, and it comes with the OK status
InvokeResponse(c, m) ==
    LET loc == call[c]
        streaming == MethodKind(loc.method) = "serverStream" IN
    /\ loc.pc = "recv"
    /\ InvokeCtx(c) = "live"
    /\ loc.NumResponses < (IF streaming THEN MaxResponses ELSE 1)
    /\ outputBuffer' = [outputBuffer EXCEPT ![BufferOf(c)] = OnReceiveResponse(@, m)]
    /\ IF streaming
       THEN Goto(c, [loc EXCEPT !.NumResponses = @ + 1],
                 <<Event("response", <<m>>)>>)
       ELSE Goto(c, [loc EXCEPT !.NumResponses = @ + 1, !.Status = "OK", !.pc = "invoked"],
                 <<Event("response", <<m>>), Event("status", <<"OK">>)>>)
    /\ UNCHANGED <<process, host>>

\* the terminal status arrives (OnReceiveTrailers) and InvokeRPC returns nil
InvokeStatus(c, st) ==
    LET loc == call[c] IN
    /\ loc.pc = "recv"
    /\ InvokeCtx(c) = "live"
    /\ st = "OK" => MethodKind(loc.method) = "serverStream"
    /\ Goto(c, [loc EXCEPT !.Status = st, !.pc = "invoked"], <<Event("status", <<st>>)>>)
    /\ UNCHANGED <<process, host, outputBuffer>>

\* the call fails with an error that is no status: InvokeRPC returns it
InvokeFailed(c) ==
    LET loc == call[c] IN
    /\ loc.pc = "recv"
    /\ InvokeCtx(c) = "live"
    /\ Finish(c, loc, <<Event("rpcError", <<>>)>>,
              toolError(<<"Failed to invoke RPC: ", "grpc call failed">>))
    /\ UNCHANGED <<process, host, outputBuffer>>

\* the context of the RPC is cancelled: the call ends with status Canceled
InvokeCancelled(c) ==
    LET loc == call[c] IN
    /\ loc.pc = "recv"
    /\ InvokeCtx(c) = "cancelled"
    /\ Goto(c, [loc EXCEPT !.Status = "Canceled", !.pc = "invoked"],
            <<Event("status", <<"Canceled">>)>>)
    /\ UNCHANGED <<process, host, outputBuffer>>

\* lines 130-140: InvokeRPC returned nil
InvokeReturn(c) ==
    LET loc == call[c] IN
    /\ loc.pc = "invoked"
    /\ IF loc.Status # Nil /\ StatusErr(loc.Status) # <<>>
       THEN Finish(c, loc, <<>>, toolError(<<"RPC failed: ">> \o StatusErr(loc.Status)))
       ELSE Finish(c, loc, <<>>, toolSuccess(outputBuffer[BufferOf(c)]))
    /\ UNCHANGED <<process, host, outputBuffer>>

\* ------------------------------------------------------------------- list
ReflectionService == "grpc.reflection.v1alpha.ServerReflection"

ServiceNames == {"greet.Greeter", ReflectionService, "grpc.reflection.v1.ServerReflection"}

SeqsUpTo(S, n) == UNION {[1..k -> S] : k \in 0..n}

\* the loop without its test of the name
WriteServicesAll(services) ==
    Concat([i \in 1..Len(services) |-> <<services[i], "\n">>])

RECURSIVE WriteServices(_)
\* the loop over services: every name but the reflection service's, then "\n"
WriteServices(services) ==
    IF services = <<>> THEN <<>>
    ELSE (IF Head(services) # ReflectionService
          THEN <<Head(services), "\n">> ELSE <<>>) \o WriteServices(Tail(services))

ListDial(c, ok) ==
    LET loc == call[c] IN
    /\ loc.pc = "dial" /\ loc.tool = "list"
    /\ BlockingDial(c, ok, [loc EXCEPT !.refClient = IF ok THEN "active" ELSE @],
                    "listServices")
    /\ UNCHANGED <<process, host, outputBuffer>>

\* refClient.ListServices() answers with the names the target reports
ListServices(c, services) ==
    LET loc == call[c] IN
    /\ loc.pc = "listServices"
    /\ ReflectCtx(c) = "live"
    /\ Finish(c, loc, <<Event("listServices", services)>>,
              toolSuccess(WriteServices(services)))
    /\ UNCHANGED <<process, host, outputBuffer>>

ListFailed(c) ==
    LET loc == call[c] IN
    /\ loc.pc = "listServices"
    /\ ReflectCtx(c) = "live"
    /\ Finish(c, loc, <<Event("reflect", <<"unavailable">>)>>,
              toolError(<<"Failed to list services: ", "reflection unavailable">>))
    /\ UNCHANGED <<process, host, outputBuffer>>

\* --------------------------------------------------------------- describe
EntityStrings ==
    {<<"greet.Greeter">>, <<".", "greet.HelloRequest">>,
     <<"greet.HelloRequest.TagsEntry">>, <<"nope">>, <<>>}

Elements ==
    {[isStr |-> TRUE, s |-> e] : e \in EntityStrings}
        \cup {[isStr |-> FALSE, s |-> <<"42">>]}

\* the values args["entities"] can hold: nothing, a string, an array
EntityArgs(strings, n) ==
    {[kind |-> "missing", val |-> <<>>]}
        \cup {[kind |-> "array", val |-> l] :
                 l \in SeqsUpTo({e \in Elements : e.isStr => e.s \in strings}, n)}
        \cup {[kind |-> "string", val |-> Join(l, <<",">>)] : l \in SeqsUpTo(strings, n)}

AllEntityArgs == EntityArgs(EntityStrings, MaxEntities)

AllServiceLists == SeqsUpTo(ServiceNames, MaxServices)

RECURSIVE EntityStringsOf(_)
\* lines 229-235: the array's elements up to the first that is no string
EntityStringsOf(elems) ==
    IF elems = <<>> THEN [bad |-> <<>>, tmp |-> <<>>]
    ELSE IF ~Head(elems).isStr THEN [bad |-> <<Head(elems).s>>, tmp |-> <<>>]
    ELSE LET rest == EntityStringsOf(Tail(elems)) IN
         [bad |-> rest.bad, tmp |-> <<Head(elems).s>> \o rest.tmp]

\* lines 223-236: tmp, or the element that is no string
ExtractEntities(entities) ==
    CASE entities.kind = "string" -> [bad |-> <<>>, tmp |-> Split(entities.val, ",")]
      [] entities.kind = "array" -> EntityStringsOf(entities.val)
      [] OTHER -> [bad |-> <<>>, tmp |-> <<>>]

\* lines 247-249
StripLeadingDot(entityStr) ==
    IF entityStr # <<>> /\ Head(entityStr) = "." THEN Tail(entityStr) ELSE entityStr

\* what the target's reflection service knows of a symbol
SymbolKind(name) ==
    CASE name = <<"greet.Greeter">> -> "service"
      [] name = <<"greet.HelloRequest">> -> "message"
      [] name = <<"greet.HelloRequest.TagsEntry">> -> "mapEntry"
      [] OTHER -> "none"

\* the switch of lines 261-302; "" is the default branch
ElementType(kind) ==
    CASE kind = "message" -> "a message"
      [] kind = "mapEntry" -> "the entry type for a map field"
      [] kind = "group" -> "the type of a group field"
      [] kind = "field" -> "a field"
      [] kind = "groupField" -> "a group field"
      [] kind = "extension" -> "an extension"
      [] kind = "oneof" -> "a one-of"
      [] kind = "enum" -> "an enum"
      [] kind = "enumValue" -> "an enum value"
      [] kind = "service" -> "a service"
      [] kind = "method" -> "a method"
      [] OTHER -> ""

\* the descriptor whose text is printed: a map entry is redirected to its field
DescribedSymbol(name) ==
    IF SymbolKind(name) = "mapEntry" THEN <<"greet.HelloRequest.tags">> ELSE name

\* line 310: fqn is elementType:\n txt
Description(name) ==
    name \o <<" is ", ElementType(SymbolKind(name)), ":\n", "proto of ">>
         \o DescribedSymbol(name)

\* the error appended to the descriptions made so far
ResolveErrorWithResults(results, entityStr, err) ==
    toolError(Join(results \o <<<<"Failed to resolve symbol ">> \o entityStr \o <<": ", err>>>>,
                   <<"\n\n">>))

\* line 254: the error payload of a symbol that does not resolve
ResolveError(results, entityStr, err) ==
    toolError(<<"Failed to resolve symbol ">> \o entityStr \o <<": ", err>>)

DescribeDial(c, ok) ==
    LET loc == call[c] IN
    /\ loc.pc = "dial" /\ loc.tool = "describe"
    /\ BlockingDial(c, ok, [loc EXCEPT !.refClient = IF ok THEN "active" ELSE @],
                    "entities")
    /\ UNCHANGED <<process, host, outputBuffer>>

\* lines 223-243
DescribeEntities(c) ==
    LET loc == call[c]
        e == ExtractEntities(loc.entities) IN
    /\ loc.pc = "entities"
    /\ IF e.bad # <<>>
       THEN Finish(c, loc, <<>>,
                   toolError(<<"Failed to resolve symbol ">> \o e.bad \o <<": ", "<nil>">>))
       ELSE IF Len(e.tmp) = 0
       THEN Finish(c, loc, <<>>, toolError(<<"No entities provided">>))
       ELSE Goto(c, [loc EXCEPT !.pc = "findSymbol", !.tmp = e.tmp, !.idx = 1,
                                !.results = <<>>], <<>>)
    /\ UNCHANGED <<process, host, outputBuffer>>

\* one iteration of the loop of lines 245-328, and line 330 after the last
DescribeFindSymbol(c, reply, textErr) ==
    LET loc == call[c]
        entityStr == StripLeadingDot(loc.tmp[loc.idx])
        kind == SymbolKind(entityStr)
        ev == <<Event("reflect", <<reply>> \o entityStr)>>
        results == Append(loc.results, Description(entityStr)) IN
    /\ loc.pc = "findSymbol"
    /\ ReflectCtx(c) = "live"
    /\ reply = "found" <=> kind # "none"
    /\ textErr => reply = "found"
    /\ IF reply # "found"
       THEN Finish(c, loc, ev, ResolveError(loc.results, entityStr, "Symbol not found"))
       ELSE IF ElementType(kind) = ""
       THEN Finish(c, loc, ev, toolError(<<"descriptor has unrecognized type">>))
       ELSE IF textErr
       THEN Finish(c, loc, ev \o <<Event("printError", entityStr)>>,
                   toolError(<<"Failed to describe symbol ">> \o entityStr
                             \o <<": ", "print error">>))
       ELSE IF loc.idx = Len(loc.tmp)
       THEN Finish(c, [loc EXCEPT !.results = results], ev,
                   toolSuccess(Join(results, <<"\n\n">>)))
       ELSE Goto(c, [loc EXCEPT !.results = results, !.idx = @ + 1], ev)
    /\ UNCHANGED <<process, host, outputBuffer>>

\* the reflection stream fails for another reason than an unknown symbol
DescribeReflectFailed(c) ==
    LET loc == call[c]
        entityStr == StripLeadingDot(loc.tmp[loc.idx]) IN
    /\ loc.pc = "findSymbol"
    /\ ReflectCtx(c) = "live"
    /\ Finish(c, loc, <<Event("reflect", <<"unavailable">> \o entityStr)>>,
              ResolveError(loc.results, entityStr, "reflection unavailable"))
    /\ UNCHANGED <<process, host, outputBuffer>>

\* a reflection request of a cancelled context fails
ReflectCancelled(c) ==
    LET loc == call[c] IN
    /\ ReflectCtx(c) = "cancelled"
    /\ \/ /\ loc.pc = "resolve" /\ MethodKind(loc.method) # "malformed"
          /\ Finish(c, loc, <<Event("reflect", <<"cancelled">>)>>,
                    toolError(<<"Failed to invoke RPC: ", "context canceled">>))
       \/ /\ loc.pc = "listServices"
          /\ Finish(c, loc, <<Event("reflect", <<"cancelled">>)>>,
                    toolError(<<"Failed to list services: ", "context canceled">>))
       \/ /\ loc.pc = "findSymbol"
          /\ Finish(c, loc, <<Event("reflect", <<"cancelled">> \o StripLeadingDot(loc.tmp[loc.idx]))>>,
                    ResolveError(loc.results, StripLeadingDot(loc.tmp[loc.idx]),
                                 "context canceled"))
    /\ UNCHANGED <<process, host, outputBuffer>>

\* ------------------------------------------------------ the specifications
\* the steps a handler takes once the host has called it
Step(c) ==
    \/ InvokeParseHeaders(c)
    \/ \E ok \in BOOLEAN : InvokeDial(c, ok)
    \/ \E reply \in {"found", "unavailable"} : InvokeResolve(c, reply)
    \/ InvokeRequestData(c)
    \/ InvokeStartRPC(c)
    \/ \E m \in ResponseMessages : InvokeResponse(c, m)
    \/ \E st \in {"OK", "Internal"} : InvokeStatus(c, st)
    \/ InvokeFailed(c)
    \/ InvokeCancelled(c)
    \/ InvokeReturn(c)
    \/ \E ok \in BOOLEAN : ListDial(c, ok)
    \/ \E services \in AllServiceLists : ListServices(c, services)
    \/ ListFailed(c)
    \/ \E ok \in BOOLEAN : DescribeDial(c, ok)
    \/ DescribeEntities(c)
    \/ \E reply \in {"found", "notFound"}, textErr \in BOOLEAN :
           DescribeFindSymbol(c, reply, textErr)
    \/ DescribeReflectFailed(c)
    \/ ReflectCancelled(c)
    \/ Cancel(c)
    \/ Deliver(c)

\* the host issues one tool call at a time, with any arguments
Next ==
    \/ \E address \in Addresses : Main(address)
    \/ \E c \in CallIds : CallInvoke(c, Methods, Requests, HeaderJSONs, CallIds \ {c})
    \/ \E c \in CallIds : CallList(c, CallIds \ {c})
    \/ \E c \in CallIds : CallDescribe(c, AllEntityArgs, CallIds \ {c})
    \/ \E c \in CallIds : Step(c)

Spec == Init /\ [][Next]_vars

\* what a handler does without waiting for the target: its own statements, a
\* step that ends because its context is cancelled, the dial's 10 s timeout
Unwind(c) ==
    \/ InvokeParseHeaders(c)
    \/ InvokeDial(c, FALSE) \/ ListDial(c, FALSE) \/ DescribeDial(c, FALSE)
    \/ MethodKind(call[c].method) = "malformed" /\ InvokeResolve(c, "found")
    \/ InvokeRequestData(c)
    \/ InvokeStartRPC(c)
    \/ InvokeCancelled(c)
    \/ InvokeReturn(c)
    \/ DescribeEntities(c)
    \/ ReflectCancelled(c)

\* the same calls, every handler scheduled until it blocks on the target
LiveSpec == Spec /\ \A c \in CallIds : WF_vars(Unwind(c))

\* the host runs tool calls concurrently; the arguments are a few fixed ones
ConcMethods == {"greet.Greeter/Watch", "greet.Greeter/SayHello"}

ConcEntityArgs ==
    {[kind |-> "array", val |-> <<>>],
     [kind |-> "array", val |-> <<[isStr |-> TRUE, s |-> <<"greet.Greeter">>]>>],
     [kind |-> "string", val |-> <<".", "greet.HelloRequest", ",", "nope">>]}

ConcStep(c) ==
    \/ InvokeParseHeaders(c)
    \/ \E ok \in BOOLEAN : InvokeDial(c, ok)
    \/ \E reply \in {"found", "unavailable"} : InvokeResolve(c, reply)
    \/ InvokeRequestData(c)
    \/ InvokeStartRPC(c)
    \/ InvokeResponse(c, "m1")
    \/ \E st \in {"OK", "Internal"} : InvokeStatus(c, st)
    \/ InvokeReturn(c)
    \/ \E ok \in BOOLEAN : ListDial(c, ok)
    \/ ListServices(c, <<"greet.Greeter", ReflectionService>>)
    \/ ListFailed(c)
    \/ \E ok \in BOOLEAN : DescribeDial(c, ok)
    \/ DescribeEntities(c)
    \/ \E reply \in {"found", "notFound"} : DescribeFindSymbol(c, reply, FALSE)
    \/ Deliver(c)

ConcNext ==
    \/ Main("localhost:8005")
    \/ \E c \in CallIds : CallInvoke(c, ConcMethods, {"{\"name\":\"Ada\"}"}, {""}, {})
    \/ \E c \in CallIds : CallList(c, {})
    \/ \E c \in CallIds : CallDescribe(c, ConcEntityArgs, {})
    \/ \E c \in CallIds : ConcStep(c)

ConcSpec == Init /\ [][ConcNext]_vars

\* ================================================================ properties
Returned(c) == call[c].pc = "returned"

Result(c) == call[c].ret.result

\* the text of the one content of a returned payload
Text(c) == Result(c).Content[1]

DialsOk(log) == Len(SelectSeq(log, LAMBDA e : e.ev = "dial" /\ e.val[1] = "ok"))

IsPrefix(p, t) == Len(p) <= Len(t) /\ SubSeq(t, 1, Len(p)) = p

IsSuffix(p, t) == Len(p) <= Len(t) /\ SubSeq(t, Len(t) - Len(p) + 1, Len(t)) = p

\* the responses a call's log holds, each rendered to JSON text, in order
Rendered(log) ==
    LET r == Events(log, "response") IN [i \in 1..Len(r) |-> <<Formatter(r[i].val[1])>>]

\* C1: an invoke call that got n >= 1 responses and then a non-OK status returns
\* the n rendered responses, newline-joined in arrival order, followed by the
\* error text, never the error text alone.
C1_ResponsesThenError ==
    \A c \in CallIds :
        LET st == Events(net[c], "status") IN
        (/\ Returned(c) /\ call[c].tool = "invoke"
         /\ Count(net[c], "response") >= 1
         /\ st # <<>> /\ st[1].val[1] # "OK")
        => /\ IsPrefix(Join(Rendered(net[c]), <<"\n">>), Text(c))
           /\ IsSuffix(StatusErr(st[1].val[1]), Text(c))

EmptyEntityList(entities) == entities.kind = "array" /\ entities.val = <<>>

\* C2: a describe call with an empty entity list returns the error payload
\* "No entities provided" and does no network I/O at any point: no dial and no
\* reflection request.
C2_EmptyDescribeNoNetwork ==
    \A c \in CallIds :
        (call[c].tool = "describe" /\ EmptyEntityList(call[c].entities))
        => /\ Count(net[c], "dial") = 0
           /\ Count(net[c], "reflect") = 0
           /\ Returned(c) => Result(c) = toolError(<<"No entities provided">>)

MalformedHeaders(loc) == loc.headersJSON = "{bad"

MalformedRequest(loc) == loc.request = "{\"name\":"

NoNetwork(log) ==
    Count(log, "dial") = 0 /\ Count(log, "reflect") = 0 /\ Count(log, "rpc") = 0

\* C3 as stated: an invoke call with malformed headers JSON or malformed request
\* JSON ends in an error payload and never reaches the network: no dial, no
\* reflection fetch and no RPC.
C3_EncodingErrorOffline ==
    \A c \in CallIds :
        (call[c].tool = "invoke" /\ (MalformedHeaders(call[c]) \/ MalformedRequest(call[c])))
        => /\ NoNetwork(net[c])
           /\ Returned(c) => Result(c).IsError

RequestDataError(c) ==
    Returned(c) /\ Len(Text(c)) >= 2 /\ Text(c)[2] = "error getting request data: "

\* C3 amended: malformed headers JSON ends in an error payload with no dial, no
\* reflection fetch and no RPC.  Malformed request JSON (headers well-formed)
\* ends in an error payload too, but the request is decoded only once the dial
\* succeeded and reflection resolved the method; a unary or server-streaming
\* RPC is not started before the error, and the connection is closed on return.
C3_EncodingErrors ==
    \A c \in CallIds :
        LET loc == call[c] IN
        /\ (loc.tool = "invoke" /\ MalformedHeaders(loc))
           => /\ NoNetwork(net[c]) /\ Count(net[c], "supply") = 0
              /\ Returned(c) =>
                   (Result(c).IsError /\ Text(c)[1] = "Failed to parse headers JSON: ")
        /\ (loc.tool = "invoke" /\ MalformedRequest(loc) /\ ~MalformedHeaders(loc))
           => /\ Returned(c) => Result(c).IsError
              /\ Count(net[c], "supply") >= 1 =>
                   /\ DialsOk(net[c]) = 1
                   /\ Count(net[c], "reflect") = 1
                   /\ MethodKind(loc.method) \in {"unary", "serverStream"}
                        => Count(net[c], "rpc") = 0
              /\ RequestDataError(c) =>
                   (Count(net[c], "supply") = 1 /\ Count(net[c], "close") = 1)

C3_Witness ==
    \E c \in CallIds :
        /\ call[c].tool = "invoke" /\ MalformedRequest(call[c])
        /\ RequestDataError(c) /\ DialsOk(net[c]) = 1

\* C4: a tool call opens at most one connection, and a connection it opened is
\* closed by the time the handler returns, on the success path and on every
\* error path; an idle call holds no connection.
C4_OneConnectionClosedOnReturn ==
    \A c \in CallIds :
        /\ Count(net[c], "dial") <= 1
        /\ call[c].cc = "open" => (DialsOk(net[c]) = 1 /\ ~Returned(c))
        /\ Returned(c) => (call[c].cc # "open" /\ Count(net[c], "close") = DialsOk(net[c]))
        /\ call[c].pc = "idle" => call[c].cc = Nil

C4_Witness ==
    \E c \in CallIds :
        Returned(c) /\ Result(c).IsError /\ DialsOk(net[c]) = 1 /\ Count(net[c], "close") = 1

\* C5: the success payload of list never holds the reflection service's name,
\* and holds every other reported name once per report, each followed by a
\* newline, in the order reported.
C5_ListOmitsReflection ==
    \A c \in CallIds :
        (Returned(c) /\ call[c].tool = "list" /\ ~Result(c).IsError)
        => LET services == Events(net[c], "listServices")[1].val
               others == SelectSeq(services, LAMBDA svc : svc # ReflectionService)
               text == Text(c) IN
           /\ \A i \in 1..Len(text) : text[i] # ReflectionService
           /\ Len(text) = 2 * Len(others)
           /\ \A k \in 1..Len(others) : text[2 * k - 1] = others[k] /\ text[2 * k] = "\n"

C5_Witness ==
    \E c \in CallIds :
        /\ Returned(c) /\ call[c].tool = "list" /\ ~Result(c).IsError
        /\ Events(net[c], "listServices")[1].val = <<ReflectionService, "greet.Greeter">>

\* C6: describe resolves the entities in input order; a resolution failure on
\* one of them ends the batch: no later entity is resolved, and the payload is
\* an error payload that names the failing entity and holds none of the
\* descriptions made before.
C6_DescribeAbortsOnFailure ==
    \A c \in CallIds :
        call[c].tool = "describe" =>
        LET refl == Events(net[c], "reflect")
            tmp == ExtractEntities(call[c].entities).tmp
            n == Len(refl) IN
        /\ n <= Len(tmp)
        /\ \A i \in 1..n : Tail(refl[i].val) = StripLeadingDot(tmp[i])
        /\ \A i \in 1..n : refl[i].val[1] # "found" =>
              /\ i = n
              /\ Returned(c)
              /\ Result(c).IsError
              /\ Len(Result(c).Content) = 1
              /\ \E err \in {"Symbol not found", "reflection unavailable", "context canceled"} :
                    Text(c) = <<"Failed to resolve symbol ">> \o StripLeadingDot(tmp[i])
                                \o <<": ", err>>

C6_Witness ==
    \E c \in CallIds :
        /\ Returned(c) /\ call[c].tool = "describe"
        /\ Len(call[c].results) = 1
        /\ Count(net[c], "reflect") = 2
        /\ Len(call[c].tmp) = 2
        /\ Result(c).IsError

\* C7: every tool call returns a success payload or an error payload with one
\* text content, and a nil handler error, whatever failed; the process goes on
\* serving.
C7_WellFormedReturn ==
    \A c \in CallIds :
        /\ call[c].pc # "idle" => process = "serving"
        /\ Returned(c) =>
              /\ call[c].ret.err = Nil
              /\ Result(c).IsError \in BOOLEAN
              /\ Len(Result(c).Content) = 1

C7_Witness ==
    \E c \in CallIds :
        /\ Returned(c) /\ Result(c).IsError /\ call[c].tool = "invoke"
        /\ Count(net[c], "rpcError") = 1 /\ process = "serving"

\* C10: the request supplier starts unconsumed; its first Supply consumes it and
\* tries to decode, every later Supply answers io.EOF without decoding, it never
\* becomes unconsumed again, so at most one request message is decoded per call.
C10_SupplierOneShot ==
    \A c \in CallIds :
        LET sup == Events(net[c], "supply") IN
        /\ call[c].used <=> Len(sup) >= 1
        /\ \A i \in 1..Len(sup) :
              IF i = 1 THEN sup[i].val[2] = "decoded"
              ELSE sup[i].val = <<"EOF", "skipped">>
        /\ call[c].sent <= 1

C10_Witness ==
    \E c \in CallIds :
        /\ Count(net[c], "supply") = 2
        /\ Events(net[c], "supply")[1].val = <<Nil, "decoded">>

\* what a describe call returns when it runs alone and the target answers its
\* reflection requests as refl says
RECURSIVE AloneDescribe(_, _, _)
AloneDescribe(tmp, refl, results) ==
    IF tmp = <<>> THEN toolSuccess(Join(results, <<"\n\n">>))
    ELSE LET entityStr == StripLeadingDot(Head(tmp)) IN
         IF Head(refl).val[1] # "found"
         THEN toolError(<<"Failed to resolve symbol ">> \o entityStr \o <<": ",
                          CASE Head(refl).val[1] = "notFound" -> "Symbol not found"
                            [] Head(refl).val[1] = "cancelled" -> "context canceled"
                            [] OTHER -> "reflection unavailable">>)
         ELSE AloneDescribe(Tail(tmp), Tail(refl), Append(results, Description(entityStr)))

\* what an invoke call returns once the method resolved, when it runs alone
AloneInvoked(loc, log) ==
    LET st == Events(log, "status")
        kind == MethodKind(loc.method)
        decode == JsonpbUnmarshal(loc.request) IN
    IF decode \notin {Nil, "EOF"}
    THEN toolError(<<"Failed to invoke RPC: ", "error getting request data: ", decode>>)
    ELSE IF Count(log, "rpcError") = 1
    THEN toolError(<<"Failed to invoke RPC: ", "grpc call failed">>)
    ELSE IF st[1].val[1] # "OK"
    THEN toolError(<<"RPC failed: ", "rpc error: code = ", st[1].val[1]>>)
    ELSE toolSuccess(Concat([i \in 1..Len(Rendered(log)) |-> Rendered(log)[i] \o <<"\n">>]))

\* the result of a call with arguments loc run alone against a target that
\* behaves as log says
Alone(loc, log) ==
    LET refl == Events(log, "reflect")
        kind == MethodKind(loc.method)
        e == ExtractEntities(loc.entities) IN
    CASE loc.tool = "invoke" /\ loc.headersJSON \notin {"", "{\"Authorization\":\"Bearer X\"}"} ->
            toolError(<<"Failed to parse headers JSON: ", "invalid character">>)
      [] DialsOk(log) = 0 ->
            toolError(<<"Failed to create gRPC connection: ", "dial error">>)
      [] loc.tool = "invoke" ->
            IF kind = "malformed"
            THEN toolError(<<"Failed to invoke RPC: ", "method name must be package.Service/Method">>)
            ELSE IF refl[1].val[1] # "found"
            THEN toolError(<<"Failed to invoke RPC: ",
                             IF refl[1].val[1] = "cancelled" THEN "context canceled"
                             ELSE "failed to query for service descriptor">>)
            ELSE IF kind = "unknown"
            THEN toolError(<<"Failed to invoke RPC: ", "service does not include the method">>)
            ELSE AloneInvoked(loc, log)
      [] loc.tool = "list" ->
            IF refl # <<>>
            THEN toolError(<<"Failed to list services: ",
                             IF refl[1].val[1] = "cancelled" THEN "context canceled"
                             ELSE "reflection unavailable">>)
            ELSE toolSuccess(Concat([i \in 1..Len(Events(log, "listServices")[1].val) |->
                    LET svc == Events(log, "listServices")[1].val[i] IN
                    IF svc = ReflectionService THEN <<>> ELSE <<svc, "\n">>]))
      [] OTHER ->
            IF e.bad # <<>>
            THEN toolError(<<"Failed to resolve symbol ">> \o e.bad \o <<": ", "<nil>">>)
            ELSE IF e.tmp = <<>> THEN toolError(<<"No entities provided">>)
            ELSE IF Count(log, "printError") = 1
            THEN toolError(<<"Failed to describe symbol ">>
                           \o Events(log, "printError")[1].val \o <<": ", "print error">>)
            ELSE AloneDescribe(e.tmp, refl, <<>>)

\* C8: with tool calls running concurrently, every call has its own buffer, the
\* buffer of an invoke call holds that call's responses only, the target address
\* is the one main() set, and every call returns what it would return alone
\* against the same behaviour of the target.
C8_CallsAreIsolated ==
    /\ process = "serving" => host = "localhost:8005"
    /\ \A c, d \in CallIds : c # d => BufferOf(c) # BufferOf(d)
    /\ \A c \in CallIds :
          /\ (call[c].tool = "invoke" /\ call[c].cc = "open")
             => outputBuffer[BufferOf(c)] =
                   Concat([i \in 1..Len(Rendered(net[c])) |-> Rendered(net[c])[i] \o <<"\n">>])
          /\ Returned(c) => Result(c) = Alone(call[c], net[c])

C8_Witness ==
    \E c, d \in CallIds :
        /\ c # d
        /\ Returned(c) /\ call[c].tool = "invoke" /\ ~Result(c).IsError
        /\ Count(net[c], "response") = 2
        /\ call[d].tool = "invoke" /\ call[d].pc = "recv" /\ Count(net[d], "response") = 1

InFlight(c) == call[c].pc \notin {"idle", "returned"}

\* C9: once the host cancels the context of an in-flight tool call, the call
\* returns, whichever step it is in, and the connection it opened is closed.
C9_CancelUnwinds ==
    \A c \in CallIds :
        (InFlight(c) /\ call[c].ctx = "cancelled")
            ~> (Returned(c) /\ call[c].cc # "open")

C9_Witness ==
    \E c \in CallIds :
        /\ Returned(c) /\ call[c].ctx = "cancelled"
        /\ Count(net[c], "close") = 1
        /\ \E e \in {"reflect", "status"} :
              Count(net[c], e) = 1 /\ Events(net[c], e)[1].val[1] \in {"cancelled", "Canceled"}

====
